---- MODULE Spec2Model ----
(***************************************************************************)
(* A model of deflatebench.py: the benchmark driver (benchmain), the       *)
(* per-level runner (runtest), the timing-artifact parser (parse_timefile),*)
(* the outlier trimming (trimworst) and the aggregation (printreport).     *)
(*                                                                         *)
(* Modelling choices:                                                      *)
(*  - the platform is not win32, so every timed step goes through the      *)
(*    external timer and its timing artifact;                              *)
(*  - the test mode is 'single' (the default): one test file, one          *)
(*    reference digest, one original size for every level;                 *)
(*  - the tuning switches of cfgTuning keep their defaults (all off), so   *)
(*    cputweak starts no subprocess and is a pure notification;            *)
(*  - times are counted in whole ticks and every quotient the report       *)
(*    computes is kept as an exact fraction [num, den];                    *)
(*  - the temporary directory is clean when the session starts.            *)
(***************************************************************************)
EXTENDS Integers, Sequences, FiniteSets, TLC

\* ------------------------------------------------------------- bounds
MaxRuns == 2
MaxLevel == 1
MaxCells == 4
SlowTime == 1
MaxTrimTime == 2
BaseSize == 1
OrigSize == 4
MaxLen == 3

\* A timed step is measured as fast (0 ticks, which is also what a missing
\* 'seconds user' line yields) or slow.
Times == {0, SlowTime}
TrimTimes == 0..MaxTrimTime
CompSizes == {BaseSize, BaseSize + 1}
Digests == {"d", "x"}

VARIABLES cfgRuns, cfgConfig, skipverify0,
          pc, exitcause, retval, run, level, results,
          hashfail, comptime, decomptime, compsize, ourhash, gziphash,
          timefile, compfile, decompfile, testfiles,
          tweaks, verifylog, report,
          rawcomptimes, rawdecomptimes, comptimes, decomptimes,
          calls, steps, content

vars == <<cfgRuns, cfgConfig, skipverify0, pc, exitcause, retval, run, level, results,
          hashfail, comptime, decomptime, compsize, ourhash, gziphash,
          timefile, compfile, decompfile, testfiles, tweaks, verifylog, report,
          rawcomptimes, rawdecomptimes, comptimes, decomptimes,
          calls, steps, content>>

cfgVars == <<cfgRuns, skipverify0>>
trimVars == <<rawcomptimes, rawdecomptimes, comptimes, decomptimes>>
localVars == <<hashfail, comptime, decomptime, compsize, ourhash, gziphash>>
fileVars == <<timefile, compfile, decompfile>>
\* calls: the (run, level) of every runtest invocation, in order; steps: the
\* progress marks 'c', 'd', 'v' the current runtest has printed; content: the
\* lines parse_timefile last read.
logVars == <<calls, steps, content>>

\* ------------------------------------------------------------- helpers
Levels == cfgRuns.minlevel..cfgRuns.maxlevel

numlevels == cfgRuns.maxlevel + 1 - cfgRuns.minlevel

\* The reference digest and original size every level shares in single mode.
tempfiles == [l \in Levels |-> [hash |-> "d", origsize |-> OrigSize]]

\* A file that does not exist, and a file holding the given lines.
NoFile == [exists |-> FALSE, lines |-> <<>>]

File(lines) == [exists |-> TRUE, lines |-> lines]

\* What the external timer leaves in the timing artifact: perf stat writes a
\* header and, when it reports it, the line tagged 'seconds user'; time -f %U
\* writes the one float.
PerfFile(t) == File(<<[tag |-> "other", val |-> 0], [tag |-> "seconds user", val |-> t]>>)

PerfFileNoLine == File(<<[tag |-> "other", val |-> 0]>>)

TimeFile(t) == File(<<[tag |-> "float", val |-> t]>>)

TimerOutputs == IF cfgConfig.use_perf
                THEN {PerfFile(t) : t \in Times} \cup {PerfFileNoLine}
                ELSE {TimeFile(t) : t \in Times}

\* The result of a call that may raise: ok with a value, or raised.
Ok(v) == [ok |-> TRUE, val |-> v]

Raised == [ok |-> FALSE, val |-> 0]

FirstSecondsUser_raises(lines, i) ==
    LET tagged == {j \in i..Len(lines) : lines[j].tag = "seconds user"}
    IN  IF tagged = {} THEN Raised
        ELSE Ok(lines[CHOOSE j \in tagged : \A k \in tagged : j <= k].val)

\* for line in content: the first line ending in 'seconds user' gives the
\* time; the loop falling through gives 0.0.
RECURSIVE FirstSecondsUser(_, _)
FirstSecondsUser(lines, i) ==
    IF i > Len(lines) THEN Ok(0)
    ELSE IF lines[i].tag = "seconds user" THEN Ok(lines[i].val)
    ELSE FirstSecondsUser(lines, i + 1)

parse_timefile(filen) ==
    IF ~filen.exists THEN Raised
    ELSE IF cfgConfig.use_perf THEN FirstSecondsUser(filen.lines, 1)
    ELSE IF Len(filen.lines) = 0 THEN Raised
    ELSE IF filen.lines[1].tag = "float" THEN Ok(filen.lines[1].val)
    ELSE Raised

\* Python values of the two types printreport compares: str(level) and the int 0.
PyStr(n) == [type |-> "str", val |-> n]

PyInt(n) == [type |-> "int", val |-> n]

PyNe(a, b) == IF a.type # b.type THEN TRUE ELSE a.val # b.val

\* list.sort() on a list of numbers, by insertion.
RECURSIVE InsertSorted(_, _)
InsertSorted(s, x) ==
    IF s = <<>> THEN <<x>>
    ELSE IF x < Head(s) THEN <<x>> \o s
    ELSE <<Head(s)>> \o InsertSorted(Tail(s), x)

RECURSIVE list_sort(_)
list_sort(s) ==
    IF s = <<>> THEN <<>>
    ELSE InsertSorted(list_sort(SubSeq(s, 1, Len(s) - 1)), s[Len(s)])

\* results[:-n] of Python, for n > 0.
DropLast(s, n) == IF n >= Len(s) THEN <<>> ELSE SubSeq(s, 1, Len(s) - n)

trimworst_unsorted(res) ==
    IF cfgRuns.trimworst = 0 THEN res ELSE DropLast(res, cfgRuns.trimworst)

trimworst(res) ==
    LET sorted == list_sort(res)
    IN  IF cfgRuns.trimworst = 0 THEN sorted ELSE DropLast(sorted, cfgRuns.trimworst)

RECURSIVE SumSeq(_)
SumSeq(s) == IF s = <<>> THEN 0 ELSE Head(s) + SumSeq(Tail(s))

RECURSIVE MinSeq(_)
MinSeq(s) == IF Len(s) = 1 THEN s[1]
             ELSE LET m == MinSeq(Tail(s)) IN IF Head(s) < m THEN Head(s) ELSE m

RECURSIVE MaxSeq(_)
MaxSeq(s) == IF Len(s) = 1 THEN s[1]
             ELSE LET m == MaxSeq(Tail(s)) IN IF Head(s) > m THEN Head(s) ELSE m

Frac(n, d) == [num |-> n, den |-> d]

\* ------------------------------------------------------------- initial state
\* main() has loaded the configuration; benchmain has not started yet.
Init ==
    /\ cfgRuns \in [runs : 1..MaxRuns, trimworst : 0..MaxRuns,
                    minlevel : 0..MaxLevel, maxlevel : 0..MaxLevel]
    /\ cfgRuns.minlevel <= cfgRuns.maxlevel
    /\ cfgRuns.runs * numlevels <= MaxCells
    /\ cfgConfig \in [skipverify : BOOLEAN, skipdecomp : BOOLEAN, use_perf : BOOLEAN]
    /\ skipverify0 = cfgConfig.skipverify
    /\ pc = "main"
    /\ exitcause = "none"
    /\ retval = 0
    /\ run = 0
    /\ level = cfgRuns.minlevel
    /\ results = [l \in Levels |-> <<>>]
    /\ hashfail = 0 /\ comptime = 0 /\ decomptime = 0 /\ compsize = 0
    /\ ourhash = "none" /\ gziphash = "none"
    /\ timefile = NoFile /\ compfile = FALSE /\ decompfile = FALSE
    /\ testfiles = FALSE
    /\ tweaks = <<>>
    /\ verifylog = {}
    /\ report = [rows |-> <<>>, totals |-> <<>>]
    /\ rawcomptimes = <<>> /\ rawdecomptimes = <<>>
    /\ comptimes = <<>> /\ decomptimes = <<>>
    /\ calls = <<>> /\ steps = <<>> /\ content = <<>>

\* ------------------------------------------------------------- the driver
\* sys.exit from runcommand: the process ends where it stands.
Fail(cause) == pc' = "failed" /\ exitcause' = cause

StopsOnFail_never(rv, stoponfail) == FALSE

\* runcommand: if ((retval != 0) and (stoponfail != 0)): sys.exit(...)
StopsOnFail(rv, stoponfail) == rv # 0 /\ stoponfail # 0

\* An uncaught exception: the process ends where it stands.
Crash(cause) == pc' = "crashed" /\ exitcause' = cause

\* main() checks runs > trimworst, then benchmain provisions the test file.
Main ==
    /\ pc = "main"
    /\ IF cfgRuns.runs <= cfgRuns.trimworst
       THEN /\ pc' = "exit" /\ exitcause' = "badconfig"
            /\ UNCHANGED testfiles
       ELSE /\ pc' = "tweak_on" /\ testfiles' = TRUE
            /\ UNCHANGED exitcause
    /\ UNCHANGED <<logVars, retval, cfgVars, cfgConfig, run, level, results, localVars, fileVars,
                   tweaks, verifylog, report, trimVars>>

\* cputweak(True), then the empty per-level result lists.
CpuTweakOn ==
    /\ pc = "tweak_on"
    /\ tweaks' = Append(tweaks, TRUE)
    /\ results' = [l \in Levels |-> <<>>]
    /\ run' = 1
    /\ pc' = "run_head"
    /\ UNCHANGED <<logVars, retval, cfgVars, cfgConfig, exitcause, level, localVars, fileVars,
                   testfiles, verifylog, report, trimVars>>

SkipVerifyForRun_never(r, sv) == sv

\* if run != 1: cfgConfig['skipverify'] = True
SkipVerifyForRun(r, sv) == IF r # 1 THEN TRUE ELSE sv

RunHead ==
    /\ pc = "run_head"
    /\ cfgConfig' = [cfgConfig EXCEPT !.skipverify = SkipVerifyForRun(run, @)]
    /\ level' = cfgRuns.minlevel
    /\ pc' = "sync"
    /\ UNCHANGED <<logVars, retval, cfgVars, exitcause, run, results, localVars, fileVars,
                   testfiles, tweaks, verifylog, report, trimVars>>

\* ------------------------------------------------------------- runtest
\* The start of runtest: the locals, then runcommand('sync').
Sync ==
    /\ pc = "sync"
    /\ calls' = Append(calls, <<run, level>>)
    /\ steps' = <<>> /\ content' = <<>>
    /\ hashfail' = 0 /\ decomptime' = 0
    /\ \E rv \in {0, 1} :
          /\ retval' = rv
          /\ IF StopsOnFail(rv, 1)
             THEN Fail("sync")
             ELSE pc' = "compress" /\ UNCHANGED exitcause
    /\ UNCHANGED <<cfgVars, cfgConfig, run, level, results, comptime, compsize,
                   ourhash, gziphash, fileVars, testfiles, tweaks, verifylog,
                   report, trimVars>>

DecompressWanted_skipdecomponly(skipdecomp, skipverify) == ~skipdecomp

\* if not cfgConfig['skipdecomp'] or not cfgConfig['skipverify']:
DecompressWanted(skipdecomp, skipverify) == ~skipdecomp \/ ~skipverify

\* The timed compress step. runcommand opens the compressed artifact for writing
\* before the subprocess runs; a non-zero exit ends the process at once.
Compress ==
    /\ pc = "compress"
    /\ steps' = Append(steps, "c")
    /\ \E rv \in {0, 1} :
          /\ retval' = rv
          /\ IF StopsOnFail(rv, 1)
             THEN /\ \E tf \in TimerOutputs \cup {timefile} : timefile' = tf
                  /\ compfile' = TRUE
                  /\ Fail("compress")
                  /\ UNCHANGED <<comptime, compsize, content>>
             ELSE \E tf \in TimerOutputs, size \in CompSizes :
                  LET t == parse_timefile(tf)
                  IN  /\ content' = tf.lines
                      /\ IF ~t.ok
                         THEN /\ timefile' = tf /\ compfile' = TRUE
                              /\ Crash("timefile")
                              /\ UNCHANGED <<comptime, compsize>>
                         ELSE /\ comptime' = t.val
                              /\ compsize' = size
                              /\ UNCHANGED exitcause
                              /\ IF DecompressWanted(cfgConfig.skipdecomp, cfgConfig.skipverify)
                                 THEN /\ pc' = "decompress"
                                      /\ timefile' = tf /\ compfile' = TRUE
                                 ELSE IF ~cfgConfig.skipverify
                                      THEN /\ pc' = "verify"
                                           /\ timefile' = tf /\ compfile' = TRUE
                                      ELSE /\ pc' = "returned"
                                           /\ timefile' = NoFile /\ compfile' = FALSE
    /\ UNCHANGED <<calls, cfgVars, cfgConfig, run, level, results, hashfail, decomptime,
                   ourhash, gziphash, decompfile, testfiles, tweaks, verifylog,
                   report, trimVars>>

\* if ourhash != orighash: hashfail = 1
HashCheck(h, orighash, hf) == IF h # orighash THEN 1 ELSE hf

\* The timed decompress step and check 1 (the digest of the tool's own output).
Decompress ==
    /\ pc = "decompress"
    /\ steps' = Append(steps, "d")
    /\ \E rv \in {0, 1} :
          /\ retval' = rv
          /\ IF StopsOnFail(rv, 1)
             THEN /\ \E tf \in TimerOutputs \cup {timefile} : timefile' = tf
                  /\ decompfile' = TRUE
                  /\ Fail("decompress")
                  /\ UNCHANGED <<decomptime, hashfail, ourhash, verifylog, compfile, content>>
             ELSE \E tf \in TimerOutputs :
                  LET t == parse_timefile(tf)
                  IN  IF ~t.ok
                      THEN /\ timefile' = tf /\ decompfile' = TRUE
                           /\ content' = tf.lines
                           /\ Crash("timefile")
                           /\ UNCHANGED <<decomptime, hashfail, ourhash, verifylog, compfile>>
                      ELSE /\ decomptime' = t.val
                           /\ content' = tf.lines
                           /\ decompfile' = FALSE
                           /\ UNCHANGED exitcause
                           /\ IF ~cfgConfig.skipverify
                              THEN /\ \E h \in Digests :
                                        /\ ourhash' = h
                                        /\ hashfail' = HashCheck(h, tempfiles[level].hash, hashfail)
                                   /\ verifylog' = verifylog \cup {<<run, level, 1>>}
                                   /\ pc' = "verify"
                                   /\ timefile' = tf
                                   /\ UNCHANGED compfile
                              ELSE /\ UNCHANGED <<ourhash, hashfail, verifylog>>
                                   /\ pc' = "returned"
                                   /\ timefile' = NoFile /\ compfile' = FALSE
    /\ UNCHANGED <<calls, cfgVars, cfgConfig, run, level, results, comptime, compsize,
                   gziphash, testfiles, tweaks, report, trimVars>>

\* Check 2: gunzip -c of the compressed artifact, hashed and compared; then the
\* tail of runtest removes the timing and compressed artifacts.
Verify ==
    /\ pc = "verify"
    /\ steps' = Append(steps, "v")
    /\ \E rv \in {0, 1} :
          /\ retval' = rv
          /\ IF StopsOnFail(rv, 1)
             THEN /\ decompfile' = TRUE
                  /\ Fail("gunzip")
                  /\ UNCHANGED <<gziphash, hashfail, verifylog, timefile, compfile>>
             ELSE \E h \in Digests :
                  /\ gziphash' = h
                  /\ hashfail' = HashCheck(h, tempfiles[level].hash, hashfail)
                  /\ verifylog' = verifylog \cup {<<run, level, 2>>}
                  /\ decompfile' = FALSE
                  /\ timefile' = NoFile /\ compfile' = FALSE
                  /\ pc' = "returned"
                  /\ UNCHANGED exitcause
    /\ UNCHANGED <<calls, content, cfgVars, cfgConfig, run, level, results, comptime, decomptime,
                   compsize, ourhash, testfiles, tweaks, report, trimVars>>

RecordRun_droponfail(res, lvl, m, hf) ==
    IF hf # 0 THEN res ELSE [res EXCEPT ![lvl] = Append(@, m)]

\* if hashfail != 0: print(...)  /  results[level].append([compsize,comptime,decomptime])
RecordRun(res, lvl, m, hf) == [res EXCEPT ![lvl] = Append(@, m)]

LoopStep_shortrange(r, l) ==
    IF l < cfgRuns.maxlevel THEN [pc |-> "sync", run |-> r, level |-> l + 1]
    ELSE IF r + 1 < cfgRuns.runs THEN [pc |-> "run_head", run |-> r + 1, level |-> l]
    ELSE [pc |-> "report", run |-> r, level |-> l]

\* The two for loops: the next level of this run, else the next run, else the
\* report.
LoopStep(r, l) ==
    IF l < cfgRuns.maxlevel THEN [pc |-> "sync", run |-> r, level |-> l + 1]
    ELSE IF r < cfgRuns.runs THEN [pc |-> "run_head", run |-> r + 1, level |-> l]
    ELSE [pc |-> "report", run |-> r, level |-> l]

\* runtest has returned: record the measurement and step the two loops.
Record ==
    /\ pc = "returned"
    /\ results' = RecordRun(results, level, <<compsize, comptime, decomptime>>, hashfail)
    /\ hashfail' = 0 /\ comptime' = 0 /\ decomptime' = 0 /\ compsize' = 0
    /\ ourhash' = "none" /\ gziphash' = "none"
    /\ content' = <<>>
    /\ LET nxt == LoopStep(run, level)
       IN  pc' = nxt.pc /\ run' = nxt.run /\ level' = nxt.level
    /\ UNCHANGED <<calls, steps, retval, cfgVars, cfgConfig, exitcause, fileVars, testfiles, tweaks,
                   verifylog, report, trimVars>>

\* ------------------------------------------------------------- printreport
\* The scan of one level's runs: compsize starts as None (the empty sequence),
\* takes the first size and is kept when a later size differs (a warning is
\* printed instead); rsize is the loop variable and ends as the last size.
RECURSIVE ScanRuns(_, _, _)
ScanRuns(rs, i, acc) ==
    IF i > Len(rs) THEN acc
    ELSE LET rsize == rs[i][1]
             step == IF acc.compsize # <<>> /\ acc.compsize # <<rsize>>
                     THEN [acc EXCEPT !.warnings = @ + 1]
                     ELSE [acc EXCEPT !.compsize = <<rsize>>]
         IN  ScanRuns(rs, i + 1,
                      [step EXCEPT !.rsize = rsize,
                                   !.rawcomptimes = Append(@, rs[i][2]),
                                   !.rawdecomptimes = Append(@, rs[i][3])])

NumResults_untrimmed == cfgRuns.runs

\* numresults = runs - cfgRuns['trimworst']
NumResults == cfgRuns.runs - cfgRuns.trimworst

\* One row of the report, with the sums the grand totals take from it.
LevelRow(lvl) ==
    LET scan == ScanRuns(results[lvl], 1,
                         [compsize |-> <<>>, rsize |-> 0, warnings |-> 0,
                          rawcomptimes |-> <<>>, rawdecomptimes |-> <<>>])
        origsize == tempfiles[lvl].origsize
        ctimes == trimworst(scan.rawcomptimes)
        dtimes == trimworst(scan.rawdecomptimes)
        ltotcomptime == SumSeq(ctimes)
        ltotdecomptime == SumSeq(dtimes)
    IN  [level |-> lvl,
         compsize |-> scan.compsize[1],
         rsize |-> scan.rsize,
         warnings |-> scan.warnings,
         comptimes |-> ctimes,
         decomptimes |-> dtimes,
         mincomptime |-> MinSeq(ctimes),
         maxcomptime |-> MaxSeq(ctimes),
         mindecomptime |-> MinSeq(dtimes),
         maxdecomptime |-> MaxSeq(dtimes),
         ltotcomptime |-> ltotcomptime,
         ltotdecomptime |-> ltotdecomptime,
         comppct |-> Frac(scan.rsize * 100, origsize),
         avgcomptime |-> Frac(ltotcomptime, NumResults),
         avgdecomptime |-> Frac(ltotdecomptime, NumResults)]

\* if level != 0: the loop variable is str(level), the literal is an int.
InSecondTotals(lvl) == PyNe(PyStr(lvl), PyInt(0))

ZeroTotals == [totcomppct |-> 0, totcomptime |-> 0, totdecomptime |-> 0,
               totcomppct2 |-> 0, totcomptime2 |-> 0, totdecomptime2 |-> 0]

\* The grand totals after the levels lvl..maxlevel have been added to tot.
\* Every comppct has the denominator origsize, so the sums keep numerators.
RECURSIVE Accumulate(_, _)
Accumulate(lvl, tot) ==
    IF lvl > cfgRuns.maxlevel THEN tot
    ELSE LET row == LevelRow(lvl)
             t1 == [tot EXCEPT !.totcomppct = @ + row.comppct.num,
                               !.totcomptime = @ + row.ltotcomptime,
                               !.totdecomptime = @ + row.ltotdecomptime]
             t2 == IF InSecondTotals(lvl)
                   THEN [t1 EXCEPT !.totcomppct2 = @ + row.comppct.num,
                                   !.totcomptime2 = @ + row.ltotcomptime,
                                   !.totdecomptime2 = @ + row.ltotdecomptime]
                   ELSE t1
         IN  Accumulate(lvl + 1, t2)

\* The averages of the totals block. An average the code does not compute is
\* the empty sequence. The block divides by numlevels - 1 when minlevel is 0.
Totals(tot) ==
    [totcomppct |-> tot.totcomppct,
     totcomptime |-> tot.totcomptime,
     totdecomptime |-> tot.totdecomptime,
     totcomppct2 |-> tot.totcomppct2,
     totcomptime2 |-> tot.totcomptime2,
     totdecomptime2 |-> tot.totdecomptime2,
     avgcomppct |-> Frac(tot.totcomppct, OrigSize * numlevels),
     avgcomptime |-> Frac(tot.totcomptime, numlevels * NumResults),
     avgcomppct2 |-> IF cfgRuns.minlevel = 0
                     THEN <<Frac(tot.totcomppct2, OrigSize * (numlevels - 1))>>
                     ELSE <<>>,
     avgcomptime2 |-> IF cfgRuns.minlevel = 0
                      THEN <<Frac(tot.totcomptime2, (numlevels - 1) * NumResults)>>
                      ELSE <<>>,
     avgdecomptime |-> IF cfgConfig.skipdecomp THEN <<>>
                       ELSE <<Frac(tot.totdecomptime, numlevels * NumResults)>>,
     avgdecomptime2 |-> IF cfgConfig.skipdecomp \/ cfgRuns.minlevel # 0 THEN <<>>
                        ELSE <<Frac(tot.totdecomptime2, (numlevels - 1) * NumResults)>>]

\* printreport(results, tempfiles): the rows, then the totals. With minlevel 0
\* and a single level the totals block divides by zero after the rows are out.
PrintReport ==
    /\ pc = "report"
    /\ LET rows == [l \in Levels |-> LevelRow(l)]
       IN  IF cfgRuns.minlevel = 0 /\ numlevels - 1 = 0
           THEN /\ report' = [rows |-> rows, totals |-> <<>>]
                /\ Crash("zerodivision")
           ELSE /\ report' = [rows |-> rows,
                              totals |-> <<Totals(Accumulate(cfgRuns.minlevel, ZeroTotals))>>]
                /\ pc' = "tweak_off"
                /\ UNCHANGED exitcause
    /\ UNCHANGED <<logVars, retval, cfgVars, cfgConfig, run, level, results, localVars, fileVars,
                   testfiles, tweaks, verifylog, trimVars>>

\* cputweak(False)
CpuTweakOff ==
    /\ pc = "tweak_off"
    /\ tweaks' = Append(tweaks, FALSE)
    /\ pc' = "rm_tempfiles"
    /\ UNCHANGED <<logVars, retval, cfgVars, cfgConfig, exitcause, run, level, results, localVars,
                   fileVars, testfiles, verifylog, report, trimVars>>

\* The test files are removed and benchmain returns.
RmTempfiles ==
    /\ pc = "rm_tempfiles"
    /\ testfiles' = FALSE
    /\ pc' = "done"
    /\ UNCHANGED <<logVars, retval, cfgVars, cfgConfig, exitcause, run, level, results, localVars,
                   fileVars, tweaks, verifylog, report, trimVars>>

Next ==
    \/ Main
    \/ CpuTweakOn
    \/ RunHead
    \/ Sync
    \/ Compress
    \/ Decompress
    \/ Verify
    \/ Record
    \/ PrintReport
    \/ CpuTweakOff
    \/ RmTempfiles

Spec == Init /\ [][Next]_vars

\* ------------------------------------------------------------- trimming alone
\* The two trimworst calls of printreport on arbitrary lists of one level's
\* times: runs samples each, and a trim count below runs.
InitTrim ==
    /\ cfgRuns \in [runs : 1..MaxLen, trimworst : 0..(MaxLen - 1),
                    minlevel : {0}, maxlevel : {0}]
    /\ cfgRuns.trimworst < cfgRuns.runs
    /\ rawcomptimes \in [1..cfgRuns.runs -> TrimTimes]
    /\ rawdecomptimes \in [1..cfgRuns.runs -> TrimTimes]
    /\ comptimes = <<>> /\ decomptimes = <<>>
    /\ calls = <<>> /\ steps = <<>> /\ content = <<>>
    /\ cfgConfig = [skipverify |-> FALSE, skipdecomp |-> FALSE, use_perf |-> TRUE]
    /\ skipverify0 = FALSE
    /\ pc = "trim"
    /\ exitcause = "none"
    /\ retval = 0
    /\ run = 0 /\ level = 0
    /\ results = [l \in Levels |-> <<>>]
    /\ hashfail = 0 /\ comptime = 0 /\ decomptime = 0 /\ compsize = 0
    /\ ourhash = "none" /\ gziphash = "none"
    /\ timefile = NoFile /\ compfile = FALSE /\ decompfile = FALSE
    /\ testfiles = FALSE
    /\ tweaks = <<>>
    /\ verifylog = {}
    /\ report = [rows |-> <<>>, totals |-> <<>>]

\* comptimes = trimworst(rawcomptimes); decomptimes = trimworst(rawdecomptimes).
\* list.sort() sorts in place, so the raw lists end sorted too.
TrimLevel ==
    /\ pc = "trim"
    /\ comptimes' = trimworst(rawcomptimes)
    /\ decomptimes' = trimworst(rawdecomptimes)
    /\ rawcomptimes' = list_sort(rawcomptimes)
    /\ rawdecomptimes' = list_sort(rawdecomptimes)
    /\ pc' = "trimmed"
    /\ UNCHANGED <<logVars, retval, cfgVars, cfgConfig, exitcause, run, level, results, localVars,
                   fileVars, testfiles, tweaks, verifylog, report>>

NextTrim == TrimLevel

SpecTrim == InitTrim /\ [][NextTrim]_vars

\* ------------------------------------------------------------- claims
Terminated == pc \in {"done", "failed", "crashed", "exit"}

\* printreport has printed its rows (and its totals, unless it then crashed).
ReportPrinted == pc \in {"tweak_off", "rm_tempfiles", "done"} \/ exitcause = "zerodivision"

\* printreport has returned: the rows and the totals are out.
ReportComplete == pc \in {"tweak_off", "rm_tempfiles", "done"}

\* The process ended inside runtest.
EndedInRuntest ==
    pc \in {"failed", "crashed"} /\ exitcause \in {"sync", "compress", "decompress", "gunzip", "timefile"}

Count(s, v) == Cardinality({i \in DOMAIN s : s[i] = v})

Values(s) == {s[i] : i \in DOMAIN s}

\* y holds the Len(x) - n smallest values of x, in ascending order.
SmallestOf(x, y, n) ==
    /\ Len(y) = Len(x) - n
    /\ \A i \in 1..(Len(y) - 1) : y[i] <= y[i + 1]
    /\ \A v \in Values(x) \cup Values(y) :
          /\ Count(y, v) <= Count(x, v)
          /\ Count(y, v) < Count(x, v) => \A i \in DOMAIN y : y[i] <= v

Permuted(x) == {[i \in DOMAIN x |-> x[p[i]]] : p \in Permutations(DOMAIN x)}

RECURSIVE SumOver(_, _)
SumOver(f, S) ==
    IF S = {} THEN 0
    ELSE LET x == CHOOSE y \in S : TRUE IN f[x] + SumOver(f, S \ {x})

CompTimesOf(l) == [i \in DOMAIN results[l] |-> results[l][i][2]]

DecompTimesOf(l) == [i \in DOMAIN results[l] |-> results[l][i][3]]

SizesOf(l) == {results[l][i][1] : i \in DOMAIN results[l]}

\* C1: in every execution in which cputweak(True) has been issued, cputweak(False)
\* is issued before the process ends; stated here for the executions the claim
\* names, those ended by a non-zero exit of the compressor or decompressor.
C1_TweakRestoredOnAbort ==
    (pc = "failed" /\ exitcause \in {"compress", "decompress"} /\ TRUE \in Values(tweaks))
        => FALSE \in Values(tweaks)

\* C2: whenever a runtest invocation has ended, by returning or by the process
\* ending inside it, the timing file and the decompressed file have been removed.
C2_ArtifactsRemovedOnEveryExit ==
    (pc = "returned" \/ EndedInRuntest) => (~timefile.exists /\ ~decompfile)

\* C3: with minlevel 0, the second total set sums the ratio, compress time and
\* decompress time of every level except level 0, and its averages divide by
\* numlevels - 1.
C3_SecondTotalsExcludeLevelZero ==
    (ReportPrinted /\ report.totals # <<>> /\ cfgRuns.minlevel = 0) =>
        LET t == report.totals[1]
            others == Levels \ {0}
        IN  /\ t.totcomppct2 = SumOver([l \in others |-> report.rows[l].comppct.num], others)
            /\ t.totcomptime2 = SumOver([l \in others |-> report.rows[l].ltotcomptime], others)
            /\ t.totdecomptime2 = SumOver([l \in others |-> report.rows[l].ltotdecomptime], others)
            /\ t.avgcomptime2 = <<Frac(t.totcomptime2, (numlevels - 1) * NumResults)>>

\* C4: no verification step (check 1 or check 2) is executed in a run with
\* index >= 2, and when skipverify is initially false every level recorded in
\* run 1 has had both checks executed.
C4_VerifyOnlyInRunOne ==
    /\ \A e \in verifylog : e[1] = 1
    /\ ~skipverify0 =>
          \A l \in Levels :
              Len(results[l]) >= 1 => {<<1, l, 1>>, <<1, l, 2>>} \subseteq verifylog

C4_Witness ==
    /\ ~skipverify0 /\ run = 2 /\ pc = "returned"
    /\ \A l \in Levels : {<<1, l, 1>>, <<1, l, 2>>} \subseteq verifylog

Mismatch(h) == h # "none" /\ h # tempfiles[level].hash

\* C5: a digest mismatch in either check sets hashfail, and when runtest has
\* returned with hashfail set the next step appends that run's measurement to
\* the level's list and goes on to the next level, the next run or the report.
C5_HashFailRecorded ==
    /\ [](pc \in {"verify", "returned"} =>
            ((Mismatch(ourhash) \/ Mismatch(gziphash)) => hashfail = 1))
    /\ [][(pc = "returned" /\ hashfail = 1) =>
            /\ results' = [results EXCEPT
                              ![level] = Append(@, <<compsize, comptime, decomptime>>)]
            /\ \/ pc' = "sync" /\ level' = level + 1 /\ run' = run
               \/ pc' = "run_head" /\ run' = run + 1
               \/ pc' = "report" /\ run = cfgRuns.runs /\ level = cfgRuns.maxlevel]_vars

C5_Witness ==
    /\ pc = "returned" /\ hashfail = 1
    /\ ourhash = "d" /\ gziphash = "x"
    /\ level < cfgRuns.maxlevel

C7_LastSizeReported ==
    ReportComplete =>
        \A l \in Levels :
            LET row == report.rows[l]
                last == results[l][Len(results[l])][1]
            IN  IF Cardinality(SizesOf(l)) > 1
                THEN /\ row.warnings > 0
                     /\ row.compsize = last
                     /\ row.comppct = Frac(last * 100, OrigSize)
                ELSE row.warnings = 0

\* C8: trimworst returns the runs - trimworst smallest values in ascending
\* order, the same for every permutation of its input, all of them when
\* trimworst is 0; compress and decompress times are trimmed each on their own.
C8_TrimKeepsSmallest ==
    pc = "trimmed" =>
        /\ SmallestOf(rawcomptimes, comptimes, cfgRuns.trimworst)
        /\ SmallestOf(rawdecomptimes, decomptimes, cfgRuns.trimworst)
        /\ \A x \in Permuted(rawcomptimes) : trimworst(x) = comptimes
        /\ \A x \in Permuted(rawdecomptimes) : trimworst(x) = decomptimes
        /\ cfgRuns.trimworst = 0 =>
              Len(comptimes) = cfgRuns.runs /\ Len(decomptimes) = cfgRuns.runs

C8_Witness ==
    /\ pc = "trimmed" /\ cfgRuns.runs = 3 /\ cfgRuns.trimworst = 1
    /\ rawcomptimes = <<0, 1, 2>> /\ comptimes = <<0, 1>>
    /\ rawdecomptimes = <<1, 2, 2>> /\ decomptimes = <<1, 2>>

C10_NoTimefileAtTimedStart ==
    pc \in {"compress", "decompress"} => ~timefile.exists

\* The (run, level) pairs of a whole session in the order the two loops visit
\* them: runs ascending, the levels ascending inside each run.
CallOrder ==
    [k \in 1..(cfgRuns.runs * numlevels) |->
        <<((k - 1) \div numlevels) + 1, cfgRuns.minlevel + ((k - 1) % numlevels)>>]

\* Both loops of benchmain have run to their end.
LoopsFinished == pc = "report" \/ ReportPrinted

\* C11: runtest is called once per (run, level), runs ascending and levels
\* ascending inside a run; each return appends that run's measurement at the
\* end of the level's list, so that when the loops end every level holds
\* exactly runs measurements in run order; and the printed report has one row
\* per level of minlevel..maxlevel, each built from runs - trimworst samples.
C11_OncePerRunAndLevel ==
    /\ [](/\ Len(calls) <= Len(CallOrder)
          /\ \A k \in DOMAIN calls : calls[k] = CallOrder[k])
    /\ [](pc \in {"compress", "decompress", "verify", "returned"} =>
            calls[Len(calls)] = <<run, level>>)
    /\ [][pc = "returned" =>
            /\ Len(results[level]) = run - 1
            /\ Len(results'[level]) = run
            /\ \A i \in 1..(run - 1) : results'[level][i] = results[level][i]
            /\ \A l \in Levels \ {level} : results'[l] = results[l]]_vars
    /\ [](LoopsFinished =>
            /\ calls = CallOrder
            /\ \A l \in Levels : Len(results[l]) = cfgRuns.runs)
    /\ [](ReportPrinted =>
            /\ DOMAIN report.rows = Levels
            /\ Cardinality(DOMAIN report.rows) = cfgRuns.maxlevel - cfgRuns.minlevel + 1
            /\ \A l \in Levels :
                  /\ report.rows[l].level = l
                  /\ Len(report.rows[l].comptimes) = cfgRuns.runs - cfgRuns.trimworst
                  /\ Len(report.rows[l].decomptimes) = cfgRuns.runs - cfgRuns.trimworst)

C11_Witness ==
    /\ pc = "done" /\ cfgRuns.runs = 2 /\ cfgRuns.trimworst = 1
    /\ cfgRuns.minlevel = 0 /\ cfgRuns.maxlevel = 1
    /\ calls = <<<<1, 0>>, <<1, 1>>, <<2, 0>>, <<2, 1>>>>
    /\ Len(results[0]) = 2 /\ Len(results[1]) = 2
    /\ DOMAIN report.rows = {0, 1}
    /\ Len(report.rows[0].comptimes) = 1 /\ Len(report.rows[1].decomptimes) = 1

\* The marks of the steps one runtest has started, as a set.
StepsDone == {steps[i] : i \in DOMAIN steps}

\* The time parse_timefile returns for a timing file holding these lines.
ParsedTime(lines) == parse_timefile(File(lines)).val

\* C12: inside one runtest the steps start in the order compress, decompress,
\* verify; the decompress step runs, and its time is the one parsed from the
\* timer's output, unless skipdecomp and skipverify are both set at that
\* moment, and a runtest that skipped it returns decomptime 0; so with
\* skipdecomp set and skipverify initially unset the measurement of run 1 has
\* the parsed decompress time and the measurements of all later runs have 0.
C12_DecompressUnlessBothSkipped ==
    /\ [](/\ Len(steps) <= 3
          /\ steps = SubSeq(<<"c", "d", "v">>, 1, Len(steps)))
    /\ [](pc \in {"compress", "decompress", "verify", "returned"} =>
            (pc = "compress" <=> steps = <<>>))
    /\ [](pc = "returned" =>
            /\ "d" \in StepsDone <=> ~(cfgConfig.skipdecomp /\ cfgConfig.skipverify)
            /\ "d" \in StepsDone => decomptime = ParsedTime(content)
            /\ "d" \notin StepsDone => decomptime = 0)
    /\ [][(pc = "returned" /\ cfgConfig.skipdecomp /\ ~skipverify0) =>
            IF run = 1
            THEN /\ "d" \in StepsDone
                 /\ results'[level][run][3] = ParsedTime(content)
            ELSE /\ "d" \notin StepsDone
                 /\ results'[level][run][3] = 0]_vars
    /\ []((cfgConfig.skipdecomp /\ ~skipverify0) =>
            \A l \in Levels : \A i \in DOMAIN results[l] :
                i >= 2 => results[l][i][3] = 0)

C12_Witness ==
    /\ pc = "done" /\ cfgRuns.runs = 2
    /\ cfgConfig.skipdecomp /\ ~skipverify0
    /\ results[cfgRuns.minlevel][1][3] = SlowTime
    /\ results[cfgRuns.minlevel][2][3] = 0

\* The lines read from the timing file hold no line ending in 'seconds user'.
NoSecondsUser(lines) == \A i \in DOMAIN lines : lines[i].tag # "seconds user"

\* C13: with perf as the timer, a timed step whose timing file has no
\* 'seconds user' line gets the time 0 and parse_timefile raises nothing;
\* runtest goes on to its next step or returns, and the measurement holding
\* that 0 is appended to the level's list like any other, after which the
\* loops go on to the next level, the next run or the report.
C13_PerfWithoutLineIsZero ==
    /\ [](cfgConfig.use_perf => exitcause # "timefile")
    /\ [][(cfgConfig.use_perf /\ pc = "compress" /\ pc' # "failed"
              /\ NoSecondsUser(content')) =>
            /\ comptime' = 0
            /\ pc' \in {"decompress", "returned"}]_vars
    /\ [][(cfgConfig.use_perf /\ pc = "decompress" /\ pc' # "failed"
              /\ NoSecondsUser(content')) =>
            /\ decomptime' = 0
            /\ pc' \in {"verify", "returned"}]_vars
    /\ []((cfgConfig.use_perf /\ pc \in {"decompress", "verify", "returned"}
              /\ NoSecondsUser(content)) =>
            IF "d" \in StepsDone THEN decomptime = 0 ELSE comptime = 0)
    /\ [][(cfgConfig.use_perf /\ pc = "returned" /\ NoSecondsUser(content)) =>
            /\ results'[level] = Append(results[level], <<compsize, comptime, decomptime>>)
            /\ results'[level][run][IF "d" \in StepsDone THEN 3 ELSE 2] = 0
            /\ pc' \in {"sync", "run_head", "report"}]_vars

C13_Witness ==
    /\ cfgConfig.use_perf /\ pc = "returned" /\ run = 2
    /\ content = PerfFileNoLine.lines
    /\ steps = <<"c", "d">>
    /\ comptime = SlowTime /\ decomptime = 0
    /\ Len(results[level]) = 1

====
